---- MODULE Spec2Model ----
(***************************************************************************)
(* Model of the slimmom backend's diary, daily-summary and               *)
(* recommendations handlers:                                               *)
(*   POST   /api/diary/consumed                (src/routes/auth.js:391)    *)
(*   DELETE /api/diary/remove/:date/:productId (src/routes/auth.js:514)    *)
(*   GET    /api/diary/consumed/:date          (src/routes/auth.js:640)    *)
(*   GET    /api/summary/:date                 (src/routes/summery.js:104) *)
(*   POST   /api/products/public-recommendations  (src/unnamed/part_001:122) *)
(*   POST   /api/products/private-recommendations (src/unnamed/part_001:197) *)
(*                                                                         *)
(* Instants are integers counting ticks since the epoch, TicksPerDay ticks *)
(* to a UTC calendar day.  The server's local time is UTC + tz ticks.      *)
(* Calories are integers: the catalog and the weights are chosen so that   *)
(* calories * weight / 100 is exact.                                       *)
(***************************************************************************)
EXTENDS Integers, Sequences, FiniteSets, TLC

\* ---------------------------------------------------------------- bounds
TicksPerDay == 2
MaxTime == 3
MaxIds == 2
MaxSummaries == 2
MaxConcIds == 3
MaxProducts == 5
MaxVersion == 2

\* every query of the handlers is keyed by req.user._id, so one user's
\* documents are never read or written by another user's request
Users == {"u1"}
\* requests that may be in progress at once
Procs == {"r1", "r2"}
\* local time = UTC + tz ticks: behind UTC, UTC, ahead of UTC
TzOffsets == {-1, 0, 1}
Times == 0..MaxTime

\* ------------------------------------------------ Product catalog (stub)
\* Product.findById: the catalog is an external collaborator; two products.
\* 342 is the "Omelet with cheese" of the API documentation.
Catalog ==
  [p1 |-> [title |-> "Omelet", calories |-> 342],
   p2 |-> [title |-> "Bread",  calories |-> 404]]

KnownProducts == DOMAIN Catalog
\* request bodies of POST /consumed, <<productId, product_weight>>: p1 at two
\* weights, p2 at one, and one body per rejected shape.  "" is a missing
\* productId, 0 a missing or zero product_weight (both are falsy), "px" an id
\* the catalog does not know.
PostInputs ==
  {<<"p1", 50>>, <<"p1", 150>>, <<"p2", 50>>,
   <<"", 50>>, <<"p1", 0>>, <<"px", 50>>}

NoDoc == [none |-> TRUE]

VARIABLES
  now,        \* the clock: what new Date() returns
  tz,         \* the server's local time-zone offset, fixed at start
  diaries,    \* the Diary collection: userId -> document or NoDoc
  summaries,  \* the Summary collection: userId -> document or NoDoc
  cachedFor,  \* history: for each summaryInfo element, the date it was computed for
  nextId,     \* source of fresh _id values
  res,        \* the last response sent, with the request it answers
  inflight,   \* requests that have read the Diary and not yet saved it
  overlap,    \* history: pairs of entry ids written by same-user, same-product,
              \* same-bucket logs that were in flight together
  concurrent, \* history: for each request in flight, the requests of the same
              \* user that were in flight at some moment of its own flight
  products,     \* the Product collection in Product.find({}) order
  calculators,  \* the Calculator collection: userId -> document or NoDoc
  calcInflight, \* private-recommendations requests between findOne and save
  lastSaved,    \* history: the profile of the latest request whose save succeeded
  recRes        \* the last response of a recommendations handler, with its request

recVars == <<products, calculators, calcInflight, lastSaved, recRes>>
vars == <<now, tz, diaries, summaries, cachedFor, nextId, res, inflight, overlap,
          concurrent, recVars>>

\* ------------------------------------------------------------ Date helpers
Min(a, b) == IF a < b THEN a ELSE b

\* Date.UTC(y, m, d) of an instant's getUTCFullYear/Month/Date
UTCDay(t) == t \div TicksPerDay
StartOfUTCDay(t) == UTCDay(t) * TicksPerDay

\* new Date(x).toISOString().split('T')[0]: the UTC calendar date
ISODate(t) == UTCDay(t)

\* new Date(x).toDateString(): the calendar date in the server's LOCAL time
ToDateString(t) == (t + tz) \div TicksPerDay

\* date-fns startOfDay / endOfDay: LOCAL midnight and the last tick before the next
startOfDay(t) == ToDateString(t) * TicksPerDay - tz
endOfDay(t) == startOfDay(t) + TicksPerDay - 1

\* Date.UTC(y, m, d + 1, 23, 59, 59, 999): last tick of the FOLLOWING UTC day
EndOfNextUTCDay(t) == StartOfUTCDay(t) + 2 * TicksPerDay - 1

\* --------------------------------------------------------- Mongoose helpers
\* Array.prototype.findIndex, given the set of (1-based) indices whose element
\* passes the test: the first of them, 0 where JavaScript returns -1
FindIndex(passing) ==
  IF passing = {} THEN 0 ELSE CHOOSE i \in passing : \A j \in passing : i <= j

\* Array.prototype.splice(i, 1)
Splice(seq, i) == [j \in 1..(Len(seq) - 1) |-> IF j < i THEN seq[j] ELSE seq[j + 1]]

\* entries.reduce((accumulator, product) => accumulator + product.product_Calories, 0)
RECURSIVE SumCalories(_)
SumCalories(seq) ==
  IF seq = <<>> THEN 0 ELSE Head(seq).product_Calories + SumCalories(Tail(seq))

\* .populate({ path: 'entries.productId', select: 'title' }): the loaded entry's
\* productId is no longer the id but the referenced Product document { _id, title }
Populate(e) ==
  [e EXCEPT !.productId = [id |-> e.productId, title |-> Catalog[e.productId].title]]

\* x.toString(), as the sequence of the text's pieces.  A string (the request's
\* productId) is itself; a Mongoose document renders as its inspect() output,
\* "{ _id: ..., title: ... }", never as its bare id.
StringToString(s) == <<s>>
DocumentToString(d) == <<"{ _id: ", d.id, ", title: ", d.title, " }">>

\* Diary.findOne({ userId }): at most one Diary per user
FindDiary(u) == diaries[u]

\* Diary.findOne({ userId, 'entries.date': { $gte: startDate, $lte: endDate } }).
\* MongoDB applies the two bounds to the array field without $elemMatch: the
\* document matches when some element is >= startDate and some element, not
\* necessarily the same one, is <= endDate.
DateRangeMatches(doc, startDate, endDate) ==
  /\ doc # NoDoc
  /\ \E i \in 1..Len(doc.entries) : doc.entries[i].date >= startDate
  /\ \E i \in 1..Len(doc.entries) : doc.entries[i].date <= endDate

FindDiaryInRange(u, startDate, endDate) ==
  IF DateRangeMatches(diaries[u], startDate, endDate) THEN diaries[u] ELSE NoDoc

\* ------------------------------------------------------------ Diary documents
NewDiary(u) == [id |-> <<"diary", u>>, userId |-> u, entries |-> <<>>, v |-> 0]

NewEntry(id, productId, product_weight, product_Calories, date) ==
  [id |-> id, productId |-> productId, product_weight |-> product_weight,
   product_Calories |-> product_Calories, date |-> date]

\* const product_Calories = (product.calories * product_weight) / 100
ProductCalories(productId, product_weight) ==
  (Catalog[productId].calories * product_weight) \div 100

\* a variant that compares ids and ignores the day
EntryMatches_AnyDay(e, productId, today) == e.productId = productId

\* a variant that compares ids and the day bucket
EntryMatches_ById(e, productId, today) ==
  /\ e.productId = productId
  /\ ISODate(e.date) = ISODate(today)

\* the findIndex test of POST /consumed: the (populated) productId's text equals
\* the request's, and the entry's ISO date text starts with today's date
EntryMatches(e, productId, today) ==
  /\ DocumentToString(Populate(e).productId) = StringToString(productId)
  /\ ISODate(e.date) = ISODate(today)

\* What POST /consumed does to the document it loaded, as the update that
\* save() will send: a new document is inserted whole; entries[i] = {...} is
\* a $set of entries.i; entries.push({...}) is a $push.
\* `mem` is the handler's own copy of the entries after the change.
PostChange(u, doc, productId, product_weight, today, stamp, id) ==
  LET loaded == IF doc = NoDoc THEN NewDiary(u) ELSE doc
      entry == NewEntry(id, productId, product_weight,
                        ProductCalories(productId, product_weight), stamp)
      entryIndex == FindIndex({i \in 1..Len(loaded.entries) :
                                 EntryMatches(loaded.entries[i], productId, today)})
      mem == IF entryIndex > 0
             THEN [loaded.entries EXCEPT ![entryIndex] = entry]
             ELSE Append(loaded.entries, entry)
  IN [kind |-> IF doc = NoDoc THEN "insert"
               ELSE IF entryIndex > 0 THEN "set" ELSE "push",
      user |-> u, idx |-> entryIndex, entry |-> entry, mem |-> mem,
      v |-> loaded.v, productId |-> productId, today |-> today, entryId |-> id]

\* A unique index on userId: a second insert for the same user is rejected
UserIdIsFree(stored) == stored = NoDoc

\* document.save(): Mongoose sends only the change.
\*   insert        the whole new document
\*   $push         appended to whatever the stored array holds now; __v incremented
\*   $set entries.i   only if the stored __v is still the one that was read
\*   $set entries  (after splice) only if __v is unchanged; __v incremented
\* A failed save throws (duplicate key, VersionError) and stores nothing.
SaveDiary(stored, d) ==
  CASE d.kind = "insert" ->
         IF UserIdIsFree(stored)
         THEN [ok |-> TRUE, doc |-> [NewDiary(d.user) EXCEPT !.entries = d.mem]]
         ELSE [ok |-> FALSE, doc |-> stored]
    [] d.kind = "push" ->
         [ok |-> TRUE,
          doc |-> [stored EXCEPT !.entries = Append(@, d.entry), !.v = @ + 1]]
    [] d.kind = "set" ->
         IF stored.v = d.v
         THEN [ok |-> TRUE, doc |-> [stored EXCEPT !.entries[d.idx] = d.entry]]
         ELSE [ok |-> FALSE, doc |-> stored]
    [] d.kind = "splice" ->
         IF stored.v = d.v
         THEN [ok |-> TRUE, doc |-> [stored EXCEPT !.entries = d.mem, !.v = @ + 1]]
         ELSE [ok |-> FALSE, doc |-> stored]

\* ------------------------------------------------------------------ responses
NoRecord == [none |-> TRUE]

\* `productId` and `weight` are the body of a POST; `entryId` is the id a
\* DELETE names in its path
Response(op, u, date, productId, weight, status, body, summary) ==
  [op |-> op, user |-> u, date |-> date, productId |-> productId,
   weight |-> weight, entryId |-> 0, status |-> status, body |-> body,
   summary |-> summary]

RemoveResponse(u, date, entryId, status, body) ==
  [Response("remove", u, date, "", 0, status, body, NoRecord) EXCEPT !.entryId = entryId]

\* ------------------------------------------------------- recommendations data
\* src/unnamed/part_001: POST /public-recommendations (line 122) and
\* POST /private-recommendations (line 197)
bloodTypes == <<"0(I)", "A(II)", "B(III)", "AB(IV)">>

\* bloodTypes.indexOf(bloodType): 0-based, -1 when absent
getBloodTypeIndex(bloodType) ==
  FindIndex({i \in 1..Len(bloodTypes) : bloodTypes[i] = bloodType}) - 1

\* a.title.localeCompare(b.title) orders titles by collation; TitleRank is a
\* title's place in that order
TitleRank == [Bread |-> 1, Eggs |-> 2, Milk |-> 3]
localeCompare(a, b) == TitleRank[a] - TitleRank[b]

\* a Product as Product.find({}) returns it: the title and the four flags
\* groupBloodNotAllowed[0..3] (here at 1..4)
FlagArrays == {<<TRUE, TRUE, FALSE, FALSE>>, <<FALSE, TRUE, FALSE, FALSE>>}
ProductKinds == [title : DOMAIN TitleRank, groupBloodNotAllowed : FlagArrays]

\* the Product collections considered: every list of at most MaxProducts products
ProductLists == UNION {[1..n -> ProductKinds] : n \in 0..MaxProducts}

\* the collection the profile-saving runs work against: five products
\* restricted for A(II), out of title order
DefaultProducts ==
  <<[title |-> "Milk",  groupBloodNotAllowed |-> <<TRUE, TRUE, FALSE, FALSE>>],
    [title |-> "Eggs",  groupBloodNotAllowed |-> <<FALSE, TRUE, FALSE, FALSE>>],
    [title |-> "Bread", groupBloodNotAllowed |-> <<TRUE, TRUE, FALSE, FALSE>>],
    [title |-> "Milk",  groupBloodNotAllowed |-> <<FALSE, TRUE, FALSE, FALSE>>],
    [title |-> "Bread", groupBloodNotAllowed |-> <<FALSE, TRUE, FALSE, FALSE>>]>>

\* req.body of the recommendations handlers.  0 is a missing number, "" a
\* missing blood_type (all falsy)
Profile(height, age, current_weight, desired_weight, blood_type) ==
  [height |-> height, age |-> age, current_weight |-> current_weight,
   desired_weight |-> desired_weight, blood_type |-> blood_type]

NoProfile == Profile(0, 0, 0, 0, "")

\* one body per blood type, one with a code outside the four, and one per
\* missing field
ProfileInputs ==
  {Profile(170, 30, 80, 70, bloodTypes[i]) : i \in 1..Len(bloodTypes)}
    \cup {Profile(170, 30, 80, 70, "C(V)"),
          Profile(0, 30, 80, 70, "A(II)"), Profile(170, 0, 80, 70, "A(II)"),
          Profile(170, 30, 0, 70, "A(II)"), Profile(170, 30, 80, 0, "A(II)"),
          Profile(170, 30, 80, 70, "")}

\* the bodies of the profile-saving runs: two valid profiles that differ, a
\* body with a missing field and one with an unknown blood type
PrivateInputs ==
  {Profile(170, 30, 80, 70, "A(II)"), Profile(170, 30, 75, 70, "0(I)"),
   Profile(170, 30, 80, 0, "A(II)"), Profile(170, 30, 80, 70, "C(V)")}

RecResponse(op, u, body, status, forbiddenProducts, length, dailyCalories) ==
  [op |-> op, user |-> u, body |-> body, status |-> status,
   forbiddenProducts |-> forbiddenProducts, length |-> length,
   dailyCalories |-> dailyCalories]

\* ---------------------------------------------------------------------- Init
\* the recommendations side at rest, over a given Product collection
RecInit(all) ==
  /\ products = all
  /\ calculators = [u \in Users |-> NoDoc]
  /\ calcInflight = [p \in Procs |-> NoDoc]
  /\ lastSaved = [u \in Users |-> NoDoc]
  /\ recRes = RecResponse("none", "", NoProfile, 0, <<>>, 0, 0)

DiaryInit ==
  /\ now = 0
  /\ tz \in TzOffsets
  /\ diaries = [u \in Users |-> NoDoc]
  /\ summaries = [u \in Users |-> NoDoc]
  /\ cachedFor = [u \in Users |-> <<>>]
  /\ nextId = 1
  /\ res = Response("none", "", 0, "", 0, 0, <<>>, NoRecord)
  /\ inflight = [p \in Procs |-> NoDoc]
  /\ overlap = {}
  /\ concurrent = [p \in Procs |-> {}]

Init == DiaryInit /\ RecInit(<<>>)

\* time passes between requests
Tick ==
  /\ now < MaxTime
  /\ now' = now + 1
  /\ UNCHANGED <<tz, diaries, summaries, cachedFor, nextId, res, inflight, overlap,
                 concurrent, recVars>>

\* --------------------------------------------------- POST /api/diary/consumed
\* One request handled without any other request in between.  `today` is taken
\* from the clock when the bucket is computed; `stamp` is the later new Date()
\* written into the entry, which may already be the next tick.
PostConsumed(u, productId, product_weight) ==
  /\ UNCHANGED <<tz, summaries, cachedFor, inflight, overlap, concurrent, recVars>>
  /\ IF productId = "" \/ product_weight = 0
     THEN /\ res' = Response("post", u, 0, productId, product_weight, 400, <<>>, NoRecord)
          /\ UNCHANGED <<now, diaries, nextId>>
     ELSE IF productId \notin KnownProducts
     THEN /\ res' = Response("post", u, 0, productId, product_weight, 404, <<>>, NoRecord)
          /\ UNCHANGED <<now, diaries, nextId>>
     ELSE /\ nextId <= MaxIds
          /\ \E stamp \in now..Min(now + 1, MaxTime) :
               LET d == PostChange(u, FindDiary(u), productId, product_weight,
                                   StartOfUTCDay(now), stamp, nextId)
                   saved == SaveDiary(diaries[u], d)
               IN /\ now' = stamp
                  /\ nextId' = nextId + 1
                  /\ diaries' = [diaries EXCEPT ![u] = saved.doc]
                  /\ res' = Response("post", u, stamp, productId, product_weight,
                                     IF saved.ok THEN 201 ELSE 500,
                                     IF saved.ok THEN d.mem ELSE <<>>, NoRecord)

\* ------------------------------- DELETE /api/diary/remove/:date/:productId
\* What the handler does to the document it located: splice(entryIndex, 1),
\* or nothing when no entry has the requested _id (idx = 0)
\* a variant without the `entryIndex === -1` check: splice(-1, 1) takes the
\* last entry
RemoveChange_NoCheck(u, doc, entryId) ==
  LET entryIndex == FindIndex({i \in 1..Len(doc.entries) : doc.entries[i].id = entryId})
      at == IF entryIndex = 0 THEN Len(doc.entries) ELSE entryIndex
  IN [kind |-> "splice", user |-> u, idx |-> at, entry |-> NoDoc,
      mem |-> Splice(doc.entries, at),
      v |-> doc.v, productId |-> "", today |-> 0, entryId |-> entryId]

RemoveChange(u, doc, entryId) ==
  LET entryIndex == FindIndex({i \in 1..Len(doc.entries) : doc.entries[i].id = entryId})
  IN [kind |-> IF entryIndex = 0 THEN "none" ELSE "splice",
      user |-> u, idx |-> entryIndex, entry |-> NoDoc,
      mem |-> IF entryIndex = 0 THEN doc.entries ELSE Splice(doc.entries, entryIndex),
      v |-> doc.v, productId |-> "", today |-> 0, entryId |-> entryId]

RemoveConsumed(u, date, entryId) ==
  LET startDate == StartOfUTCDay(date)
      endDate == EndOfNextUTCDay(date)
      diaryEntry == FindDiaryInRange(u, startDate, endDate)
  IN /\ UNCHANGED <<now, tz, summaries, cachedFor, nextId, inflight, overlap,
                    concurrent, recVars>>
     /\ IF diaryEntry = NoDoc
        THEN /\ res' = RemoveResponse(u, date, entryId, 404, <<>>)
             /\ UNCHANGED diaries
        ELSE LET d == RemoveChange(u, diaryEntry, entryId)
                 saved == SaveDiary(diaries[u], d)
             IN IF d.kind = "none"
                THEN /\ res' = RemoveResponse(u, date, entryId, 404, <<>>)
                     /\ UNCHANGED diaries
                ELSE /\ diaries' = [diaries EXCEPT ![u] = saved.doc]
                     /\ res' = RemoveResponse(u, date, entryId,
                                              IF saved.ok THEN 200 ELSE 500,
                                              IF saved.ok THEN d.mem ELSE <<>>)

\* ------------------------------------------- GET /api/diary/consumed/:date
GetConsumed(u, date) ==
  LET startDate == StartOfUTCDay(date)
      endDate == EndOfNextUTCDay(date)
      diaryEntries == FindDiaryInRange(u, startDate, endDate)
      filteredEntries ==
        IF diaryEntries = NoDoc THEN <<>>
        ELSE SelectSeq(diaryEntries.entries,
                       LAMBDA e : ToDateString(e.date) = ToDateString(date))
  IN /\ res' = Response("list", u, date, "", 0, 200, filteredEntries, NoRecord)
     /\ UNCHANGED <<now, tz, diaries, summaries, cachedFor, nextId, inflight, overlap,
                    concurrent, recVars>>

\* ------------------------------------------------- GET /api/summary/:date
dailyRate == 2800

\* ((totalConsumed / dailyRate) * 100).toFixed(2), in hundredths of a percent
ToFixed2(totalConsumed) == (2 * 10000 * totalConsumed + dailyRate) \div (2 * dailyRate)

\* a variant that never reports a negative remainder
SummaryRecord_ClampsLeft(diaryId, totalConsumed) ==
  [diaryId |-> diaryId,
   daily_left |-> IF totalConsumed > dailyRate THEN 0 ELSE dailyRate - totalConsumed,
   daily_consumed |-> totalConsumed, daily_rate |-> dailyRate,
   percentage |-> ToFixed2(totalConsumed)]

SummaryRecord(diaryId, totalConsumed) ==
  [diaryId |-> diaryId, daily_left |-> dailyRate - totalConsumed,
   daily_consumed |-> totalConsumed, daily_rate |-> dailyRate,
   percentage |-> ToFixed2(totalConsumed)]

NewSummary(u) == [userId |-> u, summaryInfo |-> <<>>]

\* the summaryInfo element to overwrite: the first whose (populated) diaryId
\* has some entry on the same local calendar date as `date`
ExistingSummaryIndex(summary, date) ==
  FindIndex({k \in 1..Len(summary.summaryInfo) :
               \E u \in Users :
                 /\ diaries[u] # NoDoc
                 /\ diaries[u].id = summary.summaryInfo[k].diaryId
                 /\ \E i \in 1..Len(diaries[u].entries) :
                      ToDateString(diaries[u].entries[i].date) = ToDateString(date)})

\* a variant that pushes a new element but leaves an existing one as it was
PutAt_KeepsOld(seq, i, x) == IF i > 0 THEN seq ELSE Append(seq, x)

\* entries[i] = x when i > 0, push(x) otherwise
PutAt(seq, i, x) == IF i > 0 THEN [seq EXCEPT ![i] = x] ELSE Append(seq, x)

GetSummary(u, date) ==
  LET startDate == startOfDay(date)
      endDate == endOfDay(date)
      diaryEntry == FindDiaryInRange(u, startDate, endDate)
  IN /\ UNCHANGED <<now, tz, diaries, nextId, inflight, overlap, concurrent, recVars>>
     /\ IF diaryEntry = NoDoc
        THEN /\ res' = Response("summary", u, date, "", 0, 404, <<>>, NoRecord)
             /\ UNCHANGED <<summaries, cachedFor>>
        ELSE LET totalConsumed == SumCalories(diaryEntry.entries)
                 summary == IF summaries[u] = NoDoc THEN NewSummary(u) ELSE summaries[u]
                 existingSummaryIndex == ExistingSummaryIndex(summary, date)
                 record == SummaryRecord(diaryEntry.id, totalConsumed)
             IN /\ existingSummaryIndex > 0 \/ Len(summary.summaryInfo) < MaxSummaries
                /\ summaries' = [summaries EXCEPT ![u] =
                      [summary EXCEPT !.summaryInfo = PutAt(@, existingSummaryIndex, record)]]
                /\ cachedFor' = [cachedFor EXCEPT ![u] = PutAt(@, existingSummaryIndex, date)]
                /\ res' = Response("summary", u, date, "", 0, 200, <<>>,
                                   [record EXCEPT !.diaryId = NoDoc])

\* :date parameters: the documented form, a calendar date ("2024-09-12",
\* "2024-09-10T00:00:00.000Z"), which new Date() parses as that day's UTC midnight
DateInputs == {t \in Times : t % TicksPerDay = 0}
EntryIdInputs == 1..MaxIds

Next ==
  \/ Tick
  \/ \E u \in Users, body \in PostInputs : PostConsumed(u, body[1], body[2])
  \/ \E u \in Users, date \in DateInputs, entryId \in EntryIdInputs :
       RemoveConsumed(u, date, entryId)
  \/ \E u \in Users, date \in DateInputs : GetConsumed(u, date)
  \/ \E u \in Users, date \in DateInputs : GetSummary(u, date)

Spec == Init /\ [][Next]_vars

\* ------------------------------------------------------- the Diary's writers
\* logs and removals only, one request at a time
NextDiary ==
  \/ Tick
  \/ \E u \in Users, body \in PostInputs : PostConsumed(u, body[1], body[2])
  \/ \E u \in Users, date \in DateInputs, entryId \in EntryIdInputs :
       RemoveConsumed(u, date, entryId)

SpecDiary == Init /\ [][NextDiary]_vars

\* request bodies that are accepted: two products
WriterInputs == {<<"p1", 50>>, <<"p2", 50>>}

\* accepted logs, removals and the summary that caches the totals
NextSummary ==
  \/ Tick
  \/ \E u \in Users, body \in WriterInputs : PostConsumed(u, body[1], body[2])
  \/ \E u \in Users, date \in DateInputs, entryId \in EntryIdInputs :
       RemoveConsumed(u, date, entryId)
  \/ \E u \in Users, date \in DateInputs : GetSummary(u, date)

SpecSummary == Init /\ [][NextSummary]_vars

\* ------------------------------------------------------------ large weights
\* request bodies with a product_weight large enough for one entry to pass the
\* daily rate (1000 g of p1 is 3420 kcal), next to an ordinary one and the
\* rejected shapes
WeightInputs ==
  {<<"p1", 50>>, <<"p1", 1000>>, <<"p1", 0>>, <<"", 50>>, <<"px", 50>>}

NextWeights ==
  \/ Tick
  \/ \E u \in Users, body \in WeightInputs : PostConsumed(u, body[1], body[2])
  \/ \E u \in Users, date \in DateInputs : GetSummary(u, date)

SpecWeights == Init /\ [][NextWeights]_vars

\* the same with a negative product_weight among the bodies
SignedInputs == WeightInputs \cup {<<"p1", -50>>}

NextSigned ==
  \/ Tick
  \/ \E u \in Users, body \in SignedInputs : PostConsumed(u, body[1], body[2])
  \/ \E u \in Users, date \in DateInputs : GetSummary(u, date)

SpecSigned == Init /\ [][NextSigned]_vars

\* ------------------------------------------------ overlapping POST /consumed
\* The same handler, as node runs it: everything up to `await diaryEntry.save()`
\* happens on the document as it was read; other requests run while the save
\* is awaited.
\* what a request in flight is doing, for the history
Desc(d) ==
  [op |-> IF d.kind = "splice" THEN "remove" ELSE "post",
   productId |-> d.productId, entryId |-> d.entryId]

InFlight(u) == {q \in Procs : inflight[q] # NoDoc /\ inflight[q].user = u}

\* request p has read with change d: it meets every request of the same user
\* still in flight, and each of them meets it
Meet(p, d) ==
  [q \in Procs |->
     IF q = p THEN {Desc(inflight[r]) : r \in InFlight(d.user)}
     ELSE IF q \in InFlight(d.user) THEN concurrent[q] \cup {Desc(d)}
     ELSE concurrent[q]]

PostRead(p, u, productId, product_weight) ==
  /\ inflight[p] = NoDoc
  /\ UNCHANGED <<tz, diaries, summaries, cachedFor, recVars>>
  /\ IF productId = "" \/ product_weight = 0
     THEN /\ res' = Response("post", u, 0, productId, product_weight, 400, <<>>, NoRecord)
          /\ UNCHANGED <<now, nextId, inflight, overlap, concurrent>>
     ELSE IF productId \notin KnownProducts
     THEN /\ res' = Response("post", u, 0, productId, product_weight, 404, <<>>, NoRecord)
          /\ UNCHANGED <<now, nextId, inflight, overlap, concurrent>>
     ELSE /\ nextId <= MaxConcIds
          /\ \E stamp \in now..Min(now + 1, MaxTime) :
               LET d == PostChange(u, FindDiary(u), productId, product_weight,
                                   StartOfUTCDay(now), stamp, nextId)
               IN /\ now' = stamp
                  /\ nextId' = nextId + 1
                  /\ inflight' = [inflight EXCEPT ![p] = d]
                  /\ concurrent' = Meet(p, d)
                  /\ overlap' = overlap \cup
                       {{inflight[q].entry.id, nextId} :
                          q \in {r \in Procs : /\ inflight[r] # NoDoc
                                               /\ inflight[r].user = u
                                               /\ inflight[r].productId = productId
                                               /\ inflight[r].today = d.today}}
                  /\ UNCHANGED res

PostSave(p) ==
  /\ inflight[p] # NoDoc
  /\ inflight[p].kind # "splice"
  /\ LET d == inflight[p]
         saved == SaveDiary(diaries[d.user], d)
     IN /\ diaries' = [diaries EXCEPT ![d.user] = saved.doc]
        /\ res' = Response("post", d.user, d.entry.date, d.productId,
                           d.entry.product_weight,
                           IF saved.ok THEN 201 ELSE 500,
                           IF saved.ok THEN d.mem ELSE <<>>, NoRecord)
  /\ inflight' = [inflight EXCEPT ![p] = NoDoc]
  /\ concurrent' = [concurrent EXCEPT ![p] = {}]
  /\ UNCHANGED <<now, tz, summaries, cachedFor, nextId, overlap, recVars>>

\* ------------------------------------------------ overlapping DELETE /remove
\* Everything up to `await diaryEntry.save()`: the document is located, the
\* entry found and spliced out of the handler's copy.  The request's :date
\* rides in `today`.
RemoveRead(p, u, date, entryId) ==
  LET startDate == StartOfUTCDay(date)
      endDate == EndOfNextUTCDay(date)
      diaryEntry == FindDiaryInRange(u, startDate, endDate)
      d == IF diaryEntry = NoDoc THEN NoDoc
           ELSE [RemoveChange(u, diaryEntry, entryId) EXCEPT !.today = date]
  IN /\ inflight[p] = NoDoc
     /\ UNCHANGED <<now, tz, diaries, summaries, cachedFor, nextId, overlap, recVars>>
     /\ IF diaryEntry = NoDoc \/ d.kind = "none"
        THEN /\ res' = RemoveResponse(u, date, entryId, 404, <<>>)
             /\ UNCHANGED <<inflight, concurrent>>
        ELSE /\ inflight' = [inflight EXCEPT ![p] = d]
             /\ concurrent' = Meet(p, d)
             /\ UNCHANGED res

RemoveSave(p) ==
  /\ inflight[p] # NoDoc
  /\ inflight[p].kind = "splice"
  /\ LET d == inflight[p]
         saved == SaveDiary(diaries[d.user], d)
     IN /\ diaries' = [diaries EXCEPT ![d.user] = saved.doc]
        /\ res' = RemoveResponse(d.user, d.today, d.entryId,
                                 IF saved.ok THEN 200 ELSE 500,
                                 IF saved.ok THEN d.mem ELSE <<>>)
  /\ inflight' = [inflight EXCEPT ![p] = NoDoc]
  /\ concurrent' = [concurrent EXCEPT ![p] = {}]
  /\ UNCHANGED <<now, tz, summaries, cachedFor, nextId, overlap, recVars>>

NextConc ==
  \/ Tick
  \/ \E p \in Procs, u \in Users, body \in PostInputs : PostRead(p, u, body[1], body[2])
  \/ \E p \in Procs : PostSave(p)

SpecConc == Init /\ [][NextConc]_vars

\* logs of different products and removals of one user, overlapping
\* the :date of the removals: the first day, whose range reaches the entries
\* of that day and the next
WriterDates == {t \in DateInputs : t = 0}

NextWriters ==
  \/ \E p \in Procs, u \in Users, body \in WriterInputs : PostRead(p, u, body[1], body[2])
  \/ \E p \in Procs : PostSave(p)
  \/ \E p \in Procs, u \in Users, date \in WriterDates, entryId \in 1..MaxConcIds :
       RemoveRead(p, u, date, entryId)
  \/ \E p \in Procs : RemoveSave(p)

SpecWriters == Init /\ [][NextWriters]_vars

\* ------------------------------------------------------------ recommendations
\* products.filter(product => product.groupBloodNotAllowed[bloodTypeIndex] === true)
FilterNotAllowed(all, bloodTypeIndex) ==
  SelectSeq(all, LAMBDA product : product.groupBloodNotAllowed[bloodTypeIndex + 1] = TRUE)

\* Array.prototype.slice(0, 4)
Slice4(seq) == SubSeq(seq, 1, Min(4, Len(seq)))

\* Array.prototype.sort((a, b) => a.title.localeCompare(b.title)): stable, so
\* an element goes behind the ones that do not compare greater
RECURSIVE InsertByTitle(_, _)
InsertByTitle(sorted, x) ==
  IF sorted = <<>> THEN <<x>>
  ELSE IF localeCompare(Head(sorted).title, x.title) <= 0
       THEN <<Head(sorted)>> \o InsertByTitle(Tail(sorted), x)
       ELSE <<x>> \o sorted

RECURSIVE SortByTitle(_)
SortByTitle(seq) ==
  IF seq = <<>> THEN <<>>
  ELSE InsertByTitle(SortByTitle(SubSeq(seq, 1, Len(seq) - 1)), seq[Len(seq)])

\* a variant that sorts the whole filtered list before cutting it
ForbiddenProducts_SortsFirst(all, bloodTypeIndex) ==
  Slice4(SortByTitle(FilterNotAllowed(all, bloodTypeIndex)))

\* filter, then slice(0, 4), then sort
ForbiddenProducts(all, bloodTypeIndex) ==
  SortByTitle(Slice4(FilterNotAllowed(all, bloodTypeIndex)))

dailyCalories == 2800

\* !height || !age || !current_weight || !desired_weight || !blood_type
FieldMissing(body) ==
  \/ body.height = 0 \/ body.age = 0 \/ body.current_weight = 0
  \/ body.desired_weight = 0 \/ body.blood_type = ""

\* the response both handlers end with
Recommendation(op, u, body) ==
  LET forbiddenProducts == ForbiddenProducts(products, getBloodTypeIndex(body.blood_type))
  IN RecResponse(op, u, body, 200, forbiddenProducts, Len(forbiddenProducts), dailyCalories)

\* POST /api/products/public-recommendations
PublicRecommendations(body) ==
  /\ recRes' = IF FieldMissing(body) \/ getBloodTypeIndex(body.blood_type) = -1
               THEN RecResponse("public", "", body, 400, <<>>, 0, 0)
               ELSE Recommendation("public", "", body)
  /\ UNCHANGED <<now, tz, diaries, summaries, cachedFor, nextId, res, inflight, overlap,
                 concurrent, products, calculators, calcInflight, lastSaved>>

\* the handler applied to every Product collection of the bound
InitRec == DiaryInit /\ tz = 0 /\ \E all \in ProductLists : RecInit(all)

NextRec == \E body \in ProfileInputs : PublicRecommendations(body)

SpecRec == InitRec /\ [][NextRec]_vars

\* ------------------------------ POST /api/products/private-recommendations
\* One Calculator document per user
CalculatorUserIdIsFree(stored) == stored = NoDoc

NewCalculator(u, body) == [userId |-> u, data |-> <<body>>, v |-> 0]

\* a variant that adds the profile to the stored ones
CalcChange_Appends(u, existingData, body) ==
  [kind |-> IF existingData = NoDoc THEN "insert" ELSE "set",
   user |-> u, body |-> body,
   data |-> IF existingData = NoDoc THEN <<body>> ELSE Append(existingData.data, body),
   v |-> IF existingData = NoDoc THEN 0 ELSE existingData.v]

\* What the handler does to the document it read: existingData.data = [{...}]
\* is a $set of the whole array; a new Calculator is inserted whole.
CalcChange(u, existingData, body) ==
  [kind |-> IF existingData = NoDoc THEN "insert" ELSE "set",
   user |-> u, body |-> body, data |-> <<body>>,
   v |-> IF existingData = NoDoc THEN 0 ELSE existingData.v]

\* document.save(): $set of an array goes out only if the stored __v is still
\* the one that was read, and increments it; a failed save throws
SaveCalculator(stored, c) ==
  IF c.kind = "insert"
  THEN IF CalculatorUserIdIsFree(stored)
       THEN [ok |-> TRUE, doc |-> [NewCalculator(c.user, c.body) EXCEPT !.data = c.data]]
       ELSE [ok |-> FALSE, doc |-> stored]
  ELSE IF stored.v = c.v
       THEN [ok |-> TRUE, doc |-> [stored EXCEPT !.data = c.data, !.v = @ + 1]]
       ELSE [ok |-> FALSE, doc |-> stored]

\* validation and Calculator.findOne({ userId }), up to the await of save()
PrivateRead(p, u, body) ==
  /\ calcInflight[p] = NoDoc
  /\ UNCHANGED <<now, tz, diaries, summaries, cachedFor, nextId, res, inflight, overlap,
                 concurrent, products, calculators, lastSaved>>
  /\ IF FieldMissing(body) \/ getBloodTypeIndex(body.blood_type) = -1
     THEN /\ recRes' = RecResponse("private", u, body, 400, <<>>, 0, 0)
          /\ UNCHANGED calcInflight
     ELSE /\ calculators[u] # NoDoc => calculators[u].v < MaxVersion
          /\ calcInflight' = [calcInflight EXCEPT ![p] = CalcChange(u, calculators[u], body)]
          /\ UNCHANGED recRes

\* save() and the rest of the handler
PrivateSave(p) ==
  /\ calcInflight[p] # NoDoc
  /\ LET c == calcInflight[p]
         saved == SaveCalculator(calculators[c.user], c)
     IN /\ calculators' = [calculators EXCEPT ![c.user] = saved.doc]
        /\ lastSaved' = IF saved.ok THEN [lastSaved EXCEPT ![c.user] = c.body] ELSE lastSaved
        /\ recRes' = IF saved.ok THEN Recommendation("private", c.user, c.body)
                     ELSE RecResponse("private", c.user, c.body, 500, <<>>, 0, 0)
  /\ calcInflight' = [calcInflight EXCEPT ![p] = NoDoc]
  /\ UNCHANGED <<now, tz, diaries, summaries, cachedFor, nextId, res, inflight, overlap,
                 concurrent, products>>

InitCalc == DiaryInit /\ tz = 0 /\ RecInit(DefaultProducts)

NextCalc ==
  \/ \E p \in Procs, u \in Users, body \in PrivateInputs : PrivateRead(p, u, body)
  \/ \E p \in Procs : PrivateSave(p)

SpecCalc == InitCalc /\ [][NextCalc]_vars

\* ===================================================================== claims
Entries(u) == IF diaries[u] = NoDoc THEN <<>> ELSE diaries[u].entries

\* the entries of u's Diary dated on the UTC calendar day of instant `date`
OnUTCDay(u, date) == SelectSeq(Entries(u), LAMBDA e : UTCDay(e.date) = UTCDay(date))

\* C1: in every state reached by non-overlapping logConsumption and
\* removeConsumption calls, a user's Diary holds at most one entry per
\* (productId, UTC calendar day of the entry's date).
C1_OneEntryPerProductPerDay ==
  \A u \in Users : \A i, j \in 1..Len(Entries(u)) :
    (/\ i < j
     /\ Entries(u)[i].productId = Entries(u)[j].productId)
      => UTCDay(Entries(u)[i].date) # UTCDay(Entries(u)[j].date)

\* C2: a successful logConsumption of a product that already has an entry on
\* the current UTC day keeps the number of entries, and the entry at that
\* position then holds the new weight and calories(productId) * weight / 100.
C2_RelogReplacesInPlace ==
  [][\A u \in Users : \A i \in 1..Len(Entries(u)) :
       (/\ nextId' # nextId
        /\ res'.status = 201
        /\ res'.user = u
        /\ Entries(u)[i].productId = res'.productId
        /\ UTCDay(Entries(u)[i].date) = UTCDay(now))
         => /\ Len(diaries'[u].entries) = Len(Entries(u))
            /\ diaries'[u].entries[i].productId = res'.productId
            /\ diaries'[u].entries[i].product_weight = res'.weight
            /\ diaries'[u].entries[i].product_Calories =
                 (Catalog[res'.productId].calories * res'.weight) \div 100]_vars

\* C3: once two logConsumption calls of one user for the same product and the
\* same UTC day have overlapped and both have finished, the stored Diary does
\* not hold both of their entries on one UTC day.  (Stated for the case where
\* the two are the product's only entries of that day, so that a duplicate
\* left by an earlier, non-overlapping call does not count.)
C3_OverlappingLogsLeaveOneEntry ==
  (\A p \in Procs : inflight[p] = NoDoc)
    => \A u \in Users : \A i, j \in 1..Len(Entries(u)) :
         (/\ i # j
          /\ {Entries(u)[i].id, Entries(u)[j].id} \in overlap
          /\ \A k \in 1..Len(Entries(u)) :
               (/\ Entries(u)[k].productId = Entries(u)[i].productId
                /\ UTCDay(Entries(u)[k].date) = UTCDay(Entries(u)[i].date))
                 => k \in {i, j})
           => UTCDay(Entries(u)[i].date) # UTCDay(Entries(u)[j].date)

\* C4: listConsumption(userId, D) returns exactly the entries of the user's
\* Diary whose date is on the UTC calendar day D, whatever the server's
\* time-zone offset.
C4_ListAgreesWithUTCDay ==
  res.op = "list" => res.body = OnUTCDay(res.user, res.date)

\* C5: on a server running in UTC, a successful getDailySummary(userId, date)
\* returns daily_consumed equal to the sum of product_Calories over the
\* entries dated on the requested day; other days contribute nothing.
C5_ConsumedSumsTheDayOnly ==
  (tz = 0 /\ res.op = "summary" /\ res.status = 200)
    => res.summary.daily_consumed = SumCalories(OnUTCDay(res.user, res.date))

\* every cached SummaryRecord carries the total of the entries now in the
\* Diary on the day it was computed for
CacheFresh ==
  \A u \in Users :
    summaries[u] # NoDoc =>
      \A i \in 1..Len(summaries[u].summaryInfo) :
        summaries[u].summaryInfo[i].daily_consumed =
          SumCalories(OnUTCDay(u, cachedFor[u][i]))

\* C6: a logConsumption or removeConsumption that changes the Diary leaves
\* the cached SummaryRecords equal to the summaries derived from the Diary's
\* current entries, if they were so before the write.  (Stated for writes
\* that leave the Diary without duplicate entries, so that C1's defect does
\* not count.)
C6_WriteRefreshesCache ==
  [][(/\ diaries' # diaries
      /\ CacheFresh
      /\ C1_OneEntryPerProductPerDay')
       => CacheFresh']_vars

\* C6, amended: a logConsumption or removeConsumption leaves the user's
\* SummaryHistory as it was; the cached record is written only by
\* getDailySummary, which stores the record it returns.
C6_CacheWrittenOnlyBySummary ==
  [][/\ diaries' # diaries => summaries' = summaries
     /\ (res'.op = "summary" /\ res'.status = 200)
          => \E i \in 1..Len(summaries'[res'.user].summaryInfo) :
               [summaries'[res'.user].summaryInfo[i] EXCEPT !.diaryId = NoDoc]
                 = res'.summary]_vars

\* a Diary write has just completed while a SummaryRecord computed before it
\* is cached, and the record no longer matches the Diary
C6_Witness ==
  /\ res.op \in {"post", "remove"}
  /\ res.status \in {200, 201}
  /\ summaries[res.user] # NoDoc
  /\ ~CacheFresh

HasRecordFor(u, date) ==
  \E i \in 1..Len(cachedFor[u]) : UTCDay(cachedFor[u][i]) = UTCDay(date)

\* C7: when getDailySummary succeeds for a day D2 that has entries, a record
\* already cached for another day D1 that has entries is still in the history
\* afterwards, next to the record for D2.
C7_OneRecordPerDay ==
  [][\A u \in Users : \A d1 \in DateInputs :
       (/\ res'.op = "summary" /\ res'.status = 200 /\ res'.user = u
        /\ UTCDay(d1) # UTCDay(res'.date)
        /\ HasRecordFor(u, d1)
        /\ OnUTCDay(u, d1) # <<>>
        /\ OnUTCDay(u, res'.date) # <<>>)
         => /\ HasRecordFor(u, d1)'
            /\ \E i \in 1..Len(cachedFor'[u]) :
                 UTCDay(cachedFor'[u][i]) = UTCDay(res'.date)]_vars

\* C8: a user's SummaryHistory never holds two SummaryRecords computed for
\* the same calendar day.
C8_NoDuplicateSummaryPerDay ==
  \A u \in Users : \A i, j \in 1..Len(cachedFor[u]) :
    i < j => UTCDay(cachedFor[u][i]) # UTCDay(cachedFor[u][j])

\* C9: getDailySummary(userId, date) answers NotFound whenever the user's
\* Diary has no entry dated within the UTC day of `date`.
C9_EmptyDayIsNotFound ==
  (res.op = "summary" /\ OnUTCDay(res.user, res.date) = <<>>) => res.status = 404

\* C10: removeConsumption(userId, date, entryId) removes something only when
\* the Diary had an entry dated within the single UTC day of `date`.
C10_RemoveNeedsEntryOnDay ==
  [][(res'.op = "remove" /\ res'.status = 200 /\ diaries' # diaries)
       => OnUTCDay(res'.user, res'.date) # <<>>]_vars

\* C11: logConsumption answers InvalidInput (400) when the weight is missing,
\* zero or negative, and NotFound (404) when the productId is not in the
\* catalog; in both cases the user's Diary is left as it was.
C11_RejectsBadWeightOrProduct ==
  [][res'.op = "post" =>
       /\ res'.weight <= 0 => (res'.status = 400 /\ diaries' = diaries)
       /\ (res'.weight > 0 /\ res'.productId \notin KnownProducts \cup {""})
            => (res'.status = 404 /\ diaries' = diaries)]_vars

\* C12: every SummaryRecord that getDailySummary returns or stores has a
\* percentage between 0 and 100 inclusive (here in hundredths: 0..10000).
C12_PercentageWithinRange ==
  /\ (res.op = "summary" /\ res.status = 200) => res.summary.percentage \in 0..10000
  /\ \A u \in Users :
       summaries[u] # NoDoc =>
         \A i \in 1..Len(summaries[u].summaryInfo) :
           summaries[u].summaryInfo[i].percentage \in 0..10000

\* C13: the record getDailySummary returns and every record stored in the
\* SummaryHistory satisfy daily_consumed + daily_left = daily_rate, also when
\* daily_consumed exceeds daily_rate; and the record just returned is stored
\* with the same daily_left, daily_consumed, daily_rate and percentage.
C13_LeftPlusConsumedIsRate ==
  /\ \A u \in Users :
       summaries[u] # NoDoc =>
         \A i \in 1..Len(summaries[u].summaryInfo) :
           LET r == summaries[u].summaryInfo[i]
           IN r.daily_consumed + r.daily_left = r.daily_rate
  /\ (res.op = "summary" /\ res.status = 200) =>
       /\ res.summary.daily_consumed + res.summary.daily_left = res.summary.daily_rate
       /\ \E i \in 1..Len(summaries[res.user].summaryInfo) :
            LET r == summaries[res.user].summaryInfo[i]
            IN /\ r.daily_left = res.summary.daily_left
               /\ r.daily_consumed = res.summary.daily_consumed
               /\ r.daily_rate = res.summary.daily_rate
               /\ r.percentage = res.summary.percentage

\* a summary of a day on which more than the daily rate was consumed
C13_Witness ==
  /\ res.op = "summary"
  /\ res.status = 200
  /\ res.summary.daily_consumed > res.summary.daily_rate
  /\ res.summary.daily_left < 0
  /\ \E i \in 1..Len(summaries[res.user].summaryInfo) :
       summaries[res.user].summaryInfo[i].daily_left = res.summary.daily_left

\* C14: when a user successfully logs a product that already has an entry
\* dated on another UTC day, that entry is still there, unchanged, afterwards,
\* and the Diary also holds a distinct entry for the product dated on the day
\* of the new log.
C14_OtherDayEntryIsKept ==
  [][\A u \in Users : \A i \in 1..Len(Entries(u)) :
       (/\ nextId' # nextId
        /\ res'.op = "post" /\ res'.status = 201 /\ res'.user = u
        /\ Entries(u)[i].productId = res'.productId
        /\ UTCDay(Entries(u)[i].date) # UTCDay(res'.date))
         => /\ Len(diaries'[u].entries) >= i
            /\ diaries'[u].entries[i] = Entries(u)[i]
            /\ \E j \in 1..Len(diaries'[u].entries) :
                 /\ j # i
                 /\ diaries'[u].entries[j].id # Entries(u)[i].id
                 /\ diaries'[u].entries[j].productId = res'.productId
                 /\ diaries'[u].entries[j].date = res'.date]_vars

\* the product has just been logged a second time, on another UTC day than
\* its first entry, and both entries are in the Diary
C14_Witness ==
  /\ res.op = "post"
  /\ res.status = 201
  /\ \E i, j \in 1..Len(Entries(res.user)) :
       /\ i < j
       /\ Entries(res.user)[i].productId = res.productId
       /\ Entries(res.user)[j].productId = res.productId
       /\ Entries(res.user)[j].id = nextId - 1
       /\ Entries(res.user)[j].date = res.date
       /\ UTCDay(Entries(res.user)[i].date) # UTCDay(Entries(res.user)[j].date)

\* C15: removeConsumption with an entryId that no entry of the user's Diary
\* carries answers NotFound (404) and leaves the Diary's entries as they were.
\* (A step that leaves the clock alone and ends with a removal's response is
\* that removal.)
C15_UnknownEntryIsNotFound ==
  [][(/\ res'.op = "remove"
      /\ now' = now
      /\ \A i \in 1..Len(Entries(res'.user)) : Entries(res'.user)[i].id # res'.entryId)
       => (res'.status = 404 /\ diaries' = diaries)]_vars

\* a removal has just been refused although the request's date range located
\* the Diary: none of its entries has the requested id
C15_Witness ==
  /\ res.op = "remove"
  /\ res.status = 404
  /\ FindDiaryInRange(res.user, StartOfUTCDay(res.date), EndOfNextUTCDay(res.date)) # NoDoc
  /\ \A i \in 1..Len(Entries(res.user)) : Entries(res.user)[i].id # res.entryId

\* C18: a successful removeConsumption(userId, date, entryId) removes exactly
\* one entry, the one whose id is entryId; that entry is dated on the UTC day
\* of `date`; every other entry, and their order, is unchanged.
C18_RemovesTheEntryOfTheDay ==
  [][(res'.op = "remove" /\ now' = now /\ res'.status = 200)
       => \E i \in 1..Len(Entries(res'.user)) :
            /\ Entries(res'.user)[i].id = res'.entryId
            /\ UTCDay(Entries(res'.user)[i].date) = UTCDay(res'.date)
            /\ diaries'[res'.user].entries = Splice(Entries(res'.user), i)]_vars

\* the positions in the Product collection of the products restricted for the
\* blood type of the last request, and the first four of them
Restricted ==
  {i \in 1..Len(products) :
     \E t \in 1..Len(bloodTypes) :
       bloodTypes[t] = recRes.body.blood_type /\ products[i].groupBloodNotAllowed[t]}
FirstFourRestricted == {i \in Restricted : Cardinality({j \in Restricted : j < i}) < 4}

\* C17: for a valid profile, recommend answers with forbiddenProducts made of
\* the first 4 products, in catalog order, that are restricted for the blood
\* type, sorted ascending by title: at most 4 items, sorted, all restricted,
\* `length` equal to the list's size; a blood_type outside the four canonical
\* codes is answered InvalidInput (400).
C17_FirstFourThenSorted ==
  recRes.op = "public" =>
    LET out == recRes.forbiddenProducts
        canonical == \E t \in 1..Len(bloodTypes) : bloodTypes[t] = recRes.body.blood_type
    IN /\ ~canonical => recRes.status = 400
       /\ (canonical /\ ~FieldMissing(recRes.body)) =>
            /\ recRes.status = 200
            /\ Len(out) <= 4
            /\ recRes.length = Len(out)
            /\ \A a, b \in 1..Len(out) :
                 a < b => TitleRank[out[a].title] <= TitleRank[out[b].title]
            /\ \A kind \in ProductKinds :
                 Cardinality({k \in 1..Len(out) : out[k] = kind})
                   = Cardinality({i \in FirstFourRestricted : products[i] = kind})

\* more than four products are restricted, the four returned are not in
\* catalog order, and the one cut off would have sorted before one of them
C17_Witness ==
  /\ recRes.op = "public"
  /\ recRes.status = 200
  /\ Cardinality(Restricted) > 4
  /\ Len(recRes.forbiddenProducts) = 4
  /\ \E i \in FirstFourRestricted : \E j \in FirstFourRestricted :
       i < j /\ TitleRank[products[i].title] > TitleRank[products[j].title]
  /\ \E i \in Restricted \ FirstFourRestricted : \E k \in 1..4 :
       TitleRank[products[i].title] < TitleRank[recRes.forbiddenProducts[k].title]

Reflects(o, doc) ==
  /\ doc # NoDoc
  /\ IF o.op = "post"
     THEN \E i \in 1..Len(doc.entries) : doc.entries[i].id = o.entryId
     ELSE \A i \in 1..Len(doc.entries) : doc.entries[i].id # o.entryId

\* C19: when a logConsumption has overlapped exactly one other request of
\* the same user, a logConsumption of a different product or a
\* removeConsumption, or a removeConsumption has overlapped one
\* logConsumption, then once both have completed the stored Diary reflects
\* both: the new entries are present, the removed entry is absent.
C19_NoLostUpdate ==
  [][\A p \in Procs : \A o \in concurrent[p] :
       (/\ inflight[p] # NoDoc
        /\ inflight'[p] = NoDoc
        /\ concurrent[p] = {o}
        /\ \A q \in Procs \ {p} : inflight[q] = NoDoc
        /\ \/ Desc(inflight[p]).op = "post" /\ o.op = "post"
              /\ o.productId # inflight[p].productId
           \/ Desc(inflight[p]).op = "post" /\ o.op = "remove"
           \/ Desc(inflight[p]).op = "remove" /\ o.op = "post")
         => /\ Reflects(Desc(inflight[p]), diaries'[inflight[p].user])
            /\ Reflects(o, diaries'[inflight[p].user])]_vars

\* C20: a logConsumption changes at most one entry: every entry for another
\* productId, or dated on another UTC day than the instant written into the
\* new entry, keeps its weight, calories, timestamp and position, also when
\* UTC midnight passes between the day bucket and that instant.
C20_LogLeavesOtherEntries ==
  [][\A u \in Users : \A i \in 1..Len(Entries(u)) :
       (/\ nextId' # nextId
        /\ res'.op = "post" /\ res'.user = u
        /\ \/ Entries(u)[i].productId # res'.productId
           \/ UTCDay(Entries(u)[i].date) # UTCDay(res'.date))
         => /\ Len(diaries'[u].entries) >= i
            /\ diaries'[u].entries[i] = Entries(u)[i]]_vars

\* a product logged late on one UTC day has just been logged again by a
\* request whose day bucket was that day and whose entry is stamped on the next
C20_Witness ==
  /\ res.op = "post"
  /\ res.status = 201
  /\ \E i, j \in 1..Len(Entries(res.user)) :
       /\ i < j
       /\ Entries(res.user)[j].id = nextId - 1
       /\ Entries(res.user)[j].date = res.date
       /\ res.date % TicksPerDay = 0
       /\ Entries(res.user)[i].productId = res.productId
       /\ UTCDay(Entries(res.user)[i].date) = UTCDay(res.date) - 1
====
